---- MODULE Spec2Model ----
(***************************************************************************)
(* Model of csi/util.go of longhorn-manager: the mount-point lifecycle     *)
(* (ensureMountPoint, syncMountPointDirectory, unmount,                    *)
(* unmountAndCleanupMountPoint) over one path of a node's filesystem, and  *)
(* the volume parameter resolver (getVolumeOptions).                       *)
(*                                                                         *)
(* Specifications:                                                         *)
(*   Spec              calls on the path, each taken as one step           *)
(*   ProbeSpec         two callers of ensureMountPoint, the probe taken    *)
(*                     one system call at a time                           *)
(*   OptSpec           getVolumeOptions on the caller's option map         *)
(*   BackingImageSpec  updateVolumeParamsForBackingImage, then the resolver*)
(*   DirSpec           ensureDirectory                                     *)
(*   AccessSpec        requiresSharedAccess                                *)
(*   StatsSpec         getFilesystemStatistics                             *)
(*                                                                         *)
(* Go strings are TLA+ strings; TLC evaluates Len, \o and SubSeq on them,  *)
(* so strings.Contains, strconv.Atoi and the error texts are computed on   *)
(* the characters.  A Go error is a record [kind, msg]: kind is the errno  *)
(* (or class) that os.IsNotExist / mount.IsCorruptedMnt inspect, msg is    *)
(* err.Error().                                                            *)
(***************************************************************************)
EXTENDS Integers, Sequences, FiniteSets, TLC

VARIABLES
    fs,         \* what the node's filesystem holds at the path
    mounter,    \* the mount.Interface handed to the functions
    last,       \* the last call on the path: its inputs, backend calls and results
    volOptions, \* the caller's option map (map[string]string)
    optArg,     \* the option map as it was when getVolumeOptions was last called
    optPhase,   \* "build": the caller fills the map; "done": getVolumeOptions returned
    vol,        \* the descriptor getVolumeOptions returned (NoVol: nil)
    optErr,     \* the error getVolumeOptions returned
    hist,       \* what the calls so far have made of the path: "clean",
                \* "corrupt" (classified corrupt, not unmounted since),
                \* "unmounted" (unmounted after that, not mounted anew)
    tree,       \* the directory path handed to ensureDirectory, and its parent
    dlast,      \* the last call of ensureDirectory: tree before, after, results
    access,     \* the arguments of requiresSharedAccess and what it returned
    bi,         \* the backing-image parameter map of a request, before and after
                \* updateVolumeParamsForBackingImage
    stats,      \* what statfs answers for a volume path, and the last result of
                \* getFilesystemStatistics
    procs,      \* the concurrent callers of ensureMountPoint, step by step
    sentinel    \* where the probe's sentinel file is, and whether a removal failed

mountVars == <<fs, mounter, last>>
optVars == <<volOptions, optArg, optPhase, vol, optErr>>
dirVars == <<tree, dlast>>
probeVars == <<procs, sentinel>>
helperVars == <<dirVars, access, stats, bi, probeVars>>
vars == <<mountVars, hist, optVars, helperVars>>

-----------------------------------------------------------------------------
(* Strings and errors *)

\* strings.Contains(s, sub)
Contains(s, sub) ==
    \E i \in 1..(Len(s) - Len(sub) + 1) : SubSeq(s, i, i + Len(sub) - 1) = sub

\* the nil error; fmt prints it as <nil>
NilErr == [kind |-> "nil", msg |-> "<nil>"]

MkErr(kind, msg) == [kind |-> kind, msg |-> msg]

\* os.IsNotExist(err)
IsNotExist(err) == err.kind = "ENOENT"

\* mount.IsCorruptedMnt(err): the errno classes of a corrupted mount
IsCorruptedMnt(err) ==
    err.kind \in {"ENOTCONN", "ESTALE", "EIO", "EACCES", "EHOSTDOWN", "EWOULDBLOCK"}

\* The path the calls are about
PathName == "/mnt/vol"

tempTestMountPointValidStatusFile == ".longhorn-volume-mount-point-test.tmp"

-----------------------------------------------------------------------------
(* The filesystem at the path, and the mount backend *)

\* exists:  a directory is at the path
\* mounted: a filesystem is mounted on it
\* statErr: the errno a stat of the path answers with ("none": it succeeds);
\*          ESTALE is a corrupted mount, EMFILE an ordinary failure
\* ioFault: the step of an I/O on the directory that fails ("none": all succeed)
\* empty:   the directory has no entry
StatErrs == {"none", "ESTALE", "EMFILE"}
IoFaults == {"none", "open", "readdir", "create", "write"}

AbsentFs ==
    [exists |-> FALSE, mounted |-> FALSE, statErr |-> "none",
     ioFault |-> "none", empty |-> TRUE]

\* a fresh directory (os.MkdirAll) or the directory under a detached mount
PlainDirFs ==
    [exists |-> TRUE, mounted |-> FALSE, statErr |-> "none",
     ioFault |-> "none", empty |-> TRUE]

\* mounter.IsMountPoint(path)
IsMountPoint(f) ==
    IF ~f.exists
    THEN [isMnt |-> FALSE,
          err |-> MkErr("ENOENT", "stat " \o PathName \o ": no such file or directory")]
    ELSE IF f.statErr = "ESTALE"
    THEN [isMnt |-> FALSE,
          err |-> MkErr("ESTALE", "stat " \o PathName \o ": stale NFS file handle")]
    ELSE IF f.statErr = "EMFILE"
    THEN [isMnt |-> FALSE,
          err |-> MkErr("EMFILE", "open /proc/mounts: too many open files")]
    ELSE [isMnt |-> f.mounted, err |-> NilErr]

\* What the backend's unmount answers: "ok" or "fail".  On a mounted path a
\* failure is a busy target; on a path with nothing mounted the backend either
\* reports it (fail) or, as the newer mount-utils do, swallows it (ok).
UnmountOutcomes == {"ok", "fail"}

UmountMsg(reason) ==
    "unmount failed: exit status 32\nUnmounting arguments: " \o PathName
        \o "\nOutput: umount: " \o PathName \o ": " \o reason \o ".\n"

\* mounter.Unmount(path) / forceUnmounter.UnmountWithForce(path, timeout)
BackendUnmount(f, o) ==
    IF f.mounted
    THEN IF o = "ok"
         THEN [err |-> NilErr, fs |-> PlainDirFs]
         ELSE [err |-> MkErr("EBUSY", UmountMsg("target is busy")), fs |-> f]
    ELSE IF o = "ok"
         THEN [err |-> NilErr, fs |-> f]
         ELSE IF f.exists
              THEN [err |-> MkErr("EINVAL", UmountMsg("not mounted")), fs |-> f]
              ELSE [err |-> MkErr("ENOENT", UmountMsg("no mount point specified")),
                    fs |-> f]

-----------------------------------------------------------------------------
(* The record of one call *)

NoCalls == << >>

\* op: the function called; pre: the filesystem when it was called;
\* isMnt, tableErr: what IsMountPoint answered; probed, probeErr: whether
\* syncMountPointDirectory ran and what it returned; backendErr: what the
\* backend's unmount answered; umountErr: what unmount returned;
\* calls: the backend and OS calls issued, in order; ret, err: the results;
\* prevOp: the call that returned right before this one was made ("none" when
\* the environment acted in between).  The record is kept until the
\* environment next acts on the path, so while last.op # "none" the variable fs
\* is the filesystem as the call left it.
BlankCall(op, f) ==
    [op |-> op, pre |-> f, prevOp |-> "none",
     isMnt |-> FALSE, tableErr |-> NilErr,
     probed |-> FALSE, probeErr |-> NilErr,
     backendErr |-> NilErr, umountErr |-> NilErr,
     calls |-> NoCalls, ret |-> FALSE, err |-> NilErr]

-----------------------------------------------------------------------------
(* syncMountPointDirectory *)

ProbeErr(step) ==
    CASE step = "open" ->
            MkErr("EIO", "open " \o PathName \o ": input/output error")
      [] step = "readdir" ->
            MkErr("EIO", "readdirent " \o PathName \o ": input/output error")
      [] step = "create" ->
            MkErr("EROFS", "open " \o PathName \o "/" \o tempTestMountPointValidStatusFile
                              \o ": read-only file system")
      [] step = "write" ->
            MkErr("EIO", "write " \o PathName \o "/" \o tempTestMountPointValidStatusFile
                              \o ": input/output error")

ErrEOF == MkErr("EOF", "EOF")

\* d.Readdirnames(1): io.EOF on a directory with no entry
Readdirnames(f) ==
    IF f.ioFault = "readdir" THEN ProbeErr("readdir")
    ELSE IF f.empty THEN ErrEOF
    ELSE NilErr

\* The error syncMountPointDirectory(targetPath) returns
syncMountPointDirectory(f) ==
    IF f.ioFault = "open" THEN ProbeErr("open")
    ELSE LET rd == Readdirnames(f) IN
         IF rd # NilErr /\ rd # ErrEOF THEN rd
         ELSE IF f.ioFault = "create" THEN ProbeErr("create")
         ELSE IF f.ioFault = "write" THEN ProbeErr("write")
         ELSE NilErr

-----------------------------------------------------------------------------
(* unmount *)

\* 30 * time.Second, as time.Duration prints it
defaultForceUmountTimeout == "30s"

\* the backend call unmount chooses, with its argument after the path
UnmountCall(m) ==
    IF m.force THEN "UnmountWithForce " \o defaultForceUmountTimeout
    ELSE "Unmount"

\* a slip: a forced unmount that fails is tried again as a plain one
unmount_retry(f, m, o) ==
    LET b == BackendUnmount(f, o) IN
    [err |-> IF b.err = NilErr THEN NilErr
             ELSE IF Contains(b.err.msg, "not mounted")
                     \/ Contains(b.err.msg, "no mount point specified")
             THEN NilErr
             ELSE b.err,
     backendErr |-> b.err, fs |-> b.fs,
     calls |-> IF m.force /\ b.err # NilErr
               THEN <<UnmountCall(m), "Unmount">>
               ELSE <<UnmountCall(m)>>]

\* a slip: every backend error is returned, the "not mounted" class too
unmount_noFilter(f, m, o) ==
    LET b == BackendUnmount(f, o) IN
    [err |-> b.err, backendErr |-> b.err, fs |-> b.fs, calls |-> <<UnmountCall(m)>>]

\* a slip: the backend's error is wrapped instead of returned as it is
unmount_wrapped(f, m, o) ==
    LET b == BackendUnmount(f, o) IN
    [err |-> IF b.err = NilErr
                \/ Contains(b.err.msg, "not mounted")
                \/ Contains(b.err.msg, "no mount point specified")
             THEN NilErr
             ELSE MkErr(b.err.kind, "failed to unmount: " \o b.err.msg),
     backendErr |-> b.err, fs |-> b.fs, calls |-> <<UnmountCall(m)>>]

\* unmount(path, mounter): err is what it returns, backendErr what the backend
\* answered, fs the filesystem afterwards
unmount(f, m, o) ==
    LET b == BackendUnmount(f, o) IN
    [err |-> IF b.err = NilErr THEN NilErr
             ELSE IF Contains(b.err.msg, "not mounted")
                     \/ Contains(b.err.msg, "no mount point specified")
             THEN NilErr
             ELSE b.err,
     backendErr |-> b.err, fs |-> b.fs, calls |-> <<UnmountCall(m)>>]

-----------------------------------------------------------------------------
(* ensureMountPoint *)

\* What the OS and the backend answer during one call: the backend's unmount,
\* and os.MkdirAll
Outcomes == [umount : UnmountOutcomes, mkdir : {"ok", "fail"}]

\* os.MkdirAll(path, 0750)
MkdirAll(f, o) ==
    IF f.exists THEN [err |-> NilErr, fs |-> f]
    ELSE IF o = "ok" THEN [err |-> NilErr, fs |-> PlainDirFs]
    ELSE [err |-> MkErr("EACCES", "mkdir " \o PathName \o ": permission denied"),
          fs |-> f]

\* a slip: the absent path is reported as a mount
ensureAbsent_true(f, o) ==
    LET mk == MkdirAll(f, o.mkdir) IN
    [ret |-> TRUE, err |-> mk.err, fs |-> mk.fs, calls |-> <<"MkdirAll">>]

\* the branch of an absent path: return false, os.MkdirAll(path, 0750)
ensureAbsent(f, o) ==
    LET mk == MkdirAll(f, o.mkdir) IN
    [ret |-> FALSE, err |-> mk.err, fs |-> mk.fs, calls |-> <<"MkdirAll">>]

\* a slip: the mount table alone decides, the directory is not probed
detectCorrupt_noProbe(f, tableErr) ==
    [corrupt |-> IsCorruptedMnt(tableErr), probed |-> FALSE, probeErr |-> NilErr]

\* IsCorruptedMnt after the mount-table check and, unless that one found the
\* corruption, after the probe
detectCorrupt(f, tableErr) ==
    IF IsCorruptedMnt(tableErr)
    THEN [corrupt |-> TRUE, probed |-> FALSE, probeErr |-> NilErr]
    ELSE LET e == syncMountPointDirectory(f) IN
         [corrupt |-> e # NilErr, probed |-> TRUE, probeErr |-> e]

\* fmt.Errorf("failed to unmount corrupt mount point %v umount error: %v eval error: %v", ...)
CorruptUnmountErr(unmountErr, evalErr) ==
    MkErr("errorString",
          "failed to unmount corrupt mount point " \o PathName
              \o " umount error: " \o unmountErr.msg
              \o " eval error: " \o evalErr.msg)

\* a slip: the corrupt mount is reported and left mounted
recoverCorrupt_noUnmount(f, m, o, evalErr) ==
    [ret |-> FALSE, err |-> NilErr, fs |-> f, calls |-> NoCalls,
     backendErr |-> NilErr, umountErr |-> NilErr]

\* the branch of a corrupt mount: unmount it; err is the table check's error
\* (the probe's error is local to the block that ran the probe)
recoverCorrupt(f, m, o, evalErr) ==
    LET u == unmount(f, m, o.umount) IN
    [ret |-> FALSE,
     err |-> IF u.err # NilErr THEN CorruptUnmountErr(u.err, evalErr) ELSE NilErr,
     fs |-> u.fs, calls |-> u.calls,
     backendErr |-> u.backendErr, umountErr |-> u.err]

\* ensureMountPoint(path, mounter): the filesystem afterwards and the call's record
ensureMountPoint(f, m, o) ==
    LET t == IsMountPoint(f)
        c0 == [BlankCall("ensureMountPoint", f) EXCEPT
                  !.isMnt = t.isMnt, !.tableErr = t.err]
    IN
    IF IsNotExist(t.err)
    THEN LET a == ensureAbsent(f, o) IN
         [fs |-> a.fs,
          call |-> [c0 EXCEPT !.calls = <<"IsMountPoint">> \o a.calls,
                              !.ret = a.ret, !.err = a.err]]
    ELSE LET d == detectCorrupt(f, t.err)
             probeCalls == IF d.probed THEN <<"syncMountPointDirectory">> ELSE NoCalls
             c1 == [c0 EXCEPT !.probed = d.probed, !.probeErr = d.probeErr]
         IN
         IF d.corrupt
         THEN LET r == recoverCorrupt(f, m, o, t.err) IN
              [fs |-> r.fs,
               call |-> [c1 EXCEPT
                           !.calls = <<"IsMountPoint">> \o probeCalls \o r.calls,
                           !.backendErr = r.backendErr, !.umountErr = r.umountErr,
                           !.ret = r.ret, !.err = r.err]]
         ELSE [fs |-> f,
               call |-> [c1 EXCEPT
                           !.calls = <<"IsMountPoint">> \o probeCalls,
                           !.ret = t.isMnt, !.err = t.err]]

-----------------------------------------------------------------------------
(* unmountAndCleanupMountPoint *)

\* mount.CleanupMountPoint(path, mounter, true): nothing to do on an absent
\* path; a path still mounted is unmounted first; the directory is removed with
\* os.Remove, which fails on a directory that has entries
CleanupMountPoint(f, o) ==
    IF ~f.exists THEN [err |-> NilErr, fs |-> f]
    ELSE LET b == IF f.mounted THEN BackendUnmount(f, o.umount)
                  ELSE [err |-> NilErr, fs |-> f]
         IN
         IF b.err # NilErr THEN b
         ELSE IF b.fs.empty THEN [err |-> NilErr, fs |-> AbsentFs]
         ELSE [err |-> MkErr("ENOTEMPTY",
                             "remove " \o PathName \o ": directory not empty"),
               fs |-> b.fs]

\* a slip: the cleanup runs whatever unmount returned
unmountAndCleanupMountPoint_always(f, m, o) ==
    LET u == unmount(f, m, o.umount)
        c == CleanupMountPoint(u.fs, o)
        c0 == [BlankCall("unmountAndCleanupMountPoint", f) EXCEPT
                  !.backendErr = u.backendErr, !.umountErr = u.err]
    IN
    [fs |-> c.fs,
     call |-> [c0 EXCEPT !.calls = u.calls \o <<"CleanupMountPoint">>,
                         !.err = c.err]]

\* unmountAndCleanupMountPoint(path, mounter)
unmountAndCleanupMountPoint(f, m, o) ==
    LET u == unmount(f, m, o.umount)
        c0 == [BlankCall("unmountAndCleanupMountPoint", f) EXCEPT
                  !.backendErr = u.backendErr, !.umountErr = u.err]
    IN
    IF u.err # NilErr
    THEN [fs |-> u.fs, call |-> [c0 EXCEPT !.calls = u.calls, !.err = u.err]]
    ELSE LET c == CleanupMountPoint(u.fs, o) IN
         [fs |-> c.fs,
          call |-> [c0 EXCEPT !.calls = u.calls \o <<"CleanupMountPoint">>,
                              !.err = c.err]]

-----------------------------------------------------------------------------
(* The mount lifecycle of the path *)

NoVol == [nil |-> TRUE]
EmptyOptions == [k \in {} |-> ""]

\* The record of a call as it returns
Returned(call) == [call EXCEPT !.prevOp = last.op]

InitMount ==
    /\ fs \in {AbsentFs, PlainDirFs}
    /\ mounter \in [force : BOOLEAN]
    /\ last = BlankCall("none", fs)
    /\ hist = "clean"

InitOptions ==
    /\ volOptions = EmptyOptions
    /\ optArg = EmptyOptions
    /\ optPhase = "build"
    /\ vol = NoVol
    /\ optErr = NilErr

Callers == {"a", "b"}

\* a caller of ensureMountPoint: pc is the step it is at, d and f the handles
\* syncMountPointDirectory holds, stepErr the error of the step that failed,
\* rmErr what os.Remove answered, call the record of the call
IdleCaller ==
    [pc |-> "idle", d |-> FALSE, f |-> FALSE, created |-> FALSE,
     removed |-> FALSE, stepErr |-> NilErr, rmErr |-> NilErr,
     call |-> BlankCall("none", AbsentFs)]

InitProbe ==
    /\ procs = [p \in Callers |-> IdleCaller]
    /\ sentinel = [inMount |-> FALSE, inDir |-> FALSE, removeFailed |-> FALSE]

\* the helpers outside the mount lifecycle and the resolver, at rest
InitHelpers ==
    /\ InitProbe
    /\ tree = [parent |-> "absent", writable |-> TRUE, searchable |-> TRUE,
               leaf |-> "absent"]
    /\ dlast = [op |-> "none"]
    /\ access = [vol |-> [nil |-> TRUE], cap |-> [nil |-> TRUE],
                 called |-> FALSE, ret |-> FALSE]
    /\ stats = [statfs |-> [err |-> FALSE, Blocks |-> 0, Bfree |-> 0, Bavail |-> 0,
                            Bsize |-> 4096, Files |-> 0, Ffree |-> 0],
                called |-> FALSE, volStats |-> [nil |-> TRUE], err |-> NilErr]
    /\ bi = [params |-> EmptyOptions, called |-> FALSE, arg |-> EmptyOptions,
             volumeParameters |-> EmptyOptions, out |-> EmptyOptions]

Init == InitMount /\ InitOptions /\ InitHelpers

\* ensureMountPoint keeps nothing between calls (util.go:302-329); hist is
\* the observer's account.  A call classifies the path corrupt when the
\* mount-table check or the probe says so, and unmounts in the same call.
HistAfterEnsure(h, call) ==
    IF IsCorruptedMnt(call.tableErr) \/ (call.probed /\ call.probeErr # NilErr)
    THEN IF call.umountErr = NilErr THEN "unmounted" ELSE "corrupt"
    ELSE h

\* an unmount that returns no error ends the corrupt episode
HistAfterUnmount(h, err) ==
    IF h = "corrupt" /\ err = NilErr THEN "unmounted" ELSE h

\* The external mount operation: a filesystem is mounted on the directory
ExternalMount ==
    /\ fs.exists /\ ~fs.mounted
    /\ \E e \in BOOLEAN :
          fs' = [exists |-> TRUE, mounted |-> TRUE, statErr |-> "none",
                 ioFault |-> "none", empty |-> e]
    /\ last' = BlankCall("none", fs')
    /\ hist' = IF hist = "unmounted" THEN "clean" ELSE hist
    /\ UNCHANGED <<mounter, optVars, helperVars>>

\* The filesystem behind the path degrades: a stale handle (mounts only), a
\* failing mount-table read, an I/O that fails at some step
Fault ==
    /\ fs.exists
    /\ \E s \in StatErrs, i \in IoFaults :
          /\ s # "none" \/ i # "none"
          /\ s = "ESTALE" => fs.mounted
          /\ fs' = [fs EXCEPT !.statErr = s, !.ioFault = i]
    /\ last' = BlankCall("none", fs')
    /\ UNCHANGED hist
    /\ UNCHANGED <<mounter, optVars, helperVars>>

\* The fault behind the path clears: the server answers again, the disk has
\* room again
Heal ==
    /\ fs.exists
    /\ fs.statErr # "none" \/ fs.ioFault # "none"
    /\ fs' = [fs EXCEPT !.statErr = "none", !.ioFault = "none"]
    /\ last' = BlankCall("none", fs')
    /\ UNCHANGED <<hist, mounter, optVars, helperVars>>

\* Somebody writes an entry into the directory
WriteEntry ==
    /\ fs.exists /\ fs.ioFault = "none" /\ fs.statErr = "none" /\ fs.empty
    /\ fs' = [fs EXCEPT !.empty = FALSE]
    /\ last' = BlankCall("none", fs')
    /\ UNCHANGED hist
    /\ UNCHANGED <<mounter, optVars, helperVars>>

EnsureMountPoint ==
    /\ \E o \in Outcomes :
          LET r == ensureMountPoint(fs, mounter, o) IN
          /\ fs' = r.fs
          /\ last' = Returned(r.call)
          /\ hist' = HistAfterEnsure(hist, r.call)
    /\ UNCHANGED <<mounter, optVars, helperVars>>

Unmount ==
    /\ \E o \in UnmountOutcomes :
          LET u == unmount(fs, mounter, o) IN
          /\ fs' = u.fs
          /\ last' = Returned([BlankCall("unmount", fs) EXCEPT
                                   !.backendErr = u.backendErr,
                                   !.umountErr = u.err,
                                   !.calls = u.calls, !.err = u.err])
          /\ hist' = HistAfterUnmount(hist, u.err)
    /\ UNCHANGED <<mounter, optVars, helperVars>>

UnmountAndCleanupMountPoint ==
    /\ \E o \in Outcomes :
          LET r == unmountAndCleanupMountPoint(fs, mounter, o) IN
          /\ fs' = r.fs
          /\ last' = Returned(r.call)
          /\ hist' = HistAfterUnmount(hist, r.call.umountErr)
    /\ UNCHANGED <<mounter, optVars, helperVars>>

Next ==
    \/ ExternalMount
    \/ Fault
    \/ Heal
    \/ WriteEntry
    \/ EnsureMountPoint
    \/ Unmount
    \/ UnmountAndCleanupMountPoint

Spec == Init /\ [][Next]_vars

-----------------------------------------------------------------------------
(* strconv, errors, strings *)

Digits == <<"0", "1", "2", "3", "4", "5", "6", "7", "8", "9">>

IsDigit(c) == \E d \in 1..10 : Digits[d] = c

DigitValue(c) == (CHOOSE d \in 1..10 : Digits[d] = c) - 1

AllDigits(s) == \A i \in 1..Len(s) : IsDigit(SubSeq(s, i, i))

RECURSIVE DecimalValue(_)
DecimalValue(s) ==
    IF Len(s) = 0 THEN 0
    ELSE 10 * DecimalValue(SubSeq(s, 1, Len(s) - 1))
            + DigitValue(SubSeq(s, Len(s), Len(s)))

SyntaxErr(fn, s) ==
    MkErr("ErrSyntax", "strconv." \o fn \o ": parsing \"" \o s \o "\": invalid syntax")

\* strconv.Atoi(s): an optional sign, then one or more decimal digits
Atoi(s) ==
    LET signed == Len(s) > 0 /\ SubSeq(s, 1, 1) \in {"+", "-"}
        body == IF signed THEN SubSeq(s, 2, Len(s)) ELSE s
    IN
    IF Len(body) = 0 \/ ~AllDigits(body)
    THEN [val |-> 0, err |-> SyntaxErr("Atoi", s)]
    ELSE [val |-> IF signed /\ SubSeq(s, 1, 1) = "-"
                  THEN 0 - DecimalValue(body) ELSE DecimalValue(body),
          err |-> NilErr]

\* strconv.ParseBool(s)
ParseBool(s) ==
    IF s \in {"1", "t", "T", "TRUE", "true", "True"}
    THEN [val |-> TRUE, err |-> NilErr]
    ELSE IF s \in {"0", "f", "F", "FALSE", "false", "False"}
    THEN [val |-> FALSE, err |-> NilErr]
    ELSE [val |-> FALSE, err |-> SyntaxErr("ParseBool", s)]

\* strconv.FormatBool(b)
FormatBool(b) == IF b THEN "true" ELSE "false"

\* errors.Wrap(err, message): nil when err is nil
Wrap(err, message) ==
    IF err = NilErr THEN NilErr
    ELSE MkErr(err.kind, message \o ": " \o err.msg)

\* strings.Split(s, ",")
RECURSIVE Split(_)
Split(s) ==
    IF \E i \in 1..Len(s) : SubSeq(s, i, i) = ","
    THEN LET i == CHOOSE j \in 1..Len(s) :
                    /\ SubSeq(s, j, j) = ","
                    /\ \A k \in 1..(j - 1) : SubSeq(s, k, k) # ","
         IN <<SubSeq(s, 1, i - 1)>> \o Split(SubSeq(s, i + 1, Len(s)))
    ELSE <<s>>

\* json.Unmarshal of a recurringJobSelector text into []VolumeRecurringJob,
\* on the texts the callers of this model pass
JsonTexts ==
    {"[]", "[{\"name\":\"backup\",\"isGroup\":false}]", "[{\"name\":", "{}"}

UnmarshalJobs(s) ==
    CASE s = "[]" -> [val |-> << >>, err |-> NilErr]
      [] s = "[{\"name\":\"backup\",\"isGroup\":false}]" ->
            [val |-> <<[name |-> "backup", isGroup |-> FALSE]>>, err |-> NilErr]
      [] s = "{}" ->
            [val |-> << >>,
             err |-> MkErr("UnmarshalTypeError",
                           "json: cannot unmarshal object into Go value of type []client.VolumeRecurringJob")]
      [] OTHER ->
            [val |-> << >>,
             err |-> MkErr("SyntaxError", "unexpected end of JSON input")]

-----------------------------------------------------------------------------
(* The option schema *)

defaultStaleReplicaTimeout == 2880
defaultStorageClassDisableRevisionCounterParameter == TRUE

AccessModeReadWriteMany == "ReadWriteMany"
AccessModeReadWriteOnce == "ReadWriteOnce"
DataEngineTypeV1 == "v1"
BackingImageParameterName == "backingImageName"

\* The enumerated policies types.Validate... accept
EnumValues(key) ==
    CASE key = "replicaAutoBalance" ->
            {"ignored", "disabled", "least-effort", "best-effort"}
      [] key = "dataLocality" -> {"disabled", "best-effort", "strict-local"}
      [] OTHER -> {"ignored", "enabled", "disabled"}

\* types.ValidateReplicaAutoBalance, ValidateDataLocality, ...: the value is
\* one of the policy's enumerated set
ValidateEnum(key, v) ==
    IF v \in EnumValues(key) THEN NilErr
    ELSE MkErr("errorString", "invalid " \o key \o " setting: " \o v)
-----------------------------------------------------------------------------
(* getVolumeOptions *)

\* &longhornclient.Volume{}: every field at its zero value
ZeroVol ==
    [StaleReplicaTimeout |-> 0, AccessMode |-> "", Migratable |-> FALSE,
     Encrypted |-> FALSE, NumberOfReplicas |-> 0, ReplicaAutoBalance |-> "",
     DataLocality |-> "", RevisionCounterDisabled |-> FALSE,
     UnmapMarkSnapChainRemoved |-> "", ReplicaSoftAntiAffinity |-> "",
     ReplicaZoneSoftAntiAffinity |-> "", ReplicaDiskSoftAntiAffinity |-> "",
     FromBackup |-> "", BackupTargetName |-> "", DataSource |-> "",
     BackingImage |-> "", RecurringJobSelector |-> << >>,
     DiskSelector |-> << >>, NodeSelector |-> << >>,
     DataEngine |-> "", Frontend |-> "", FreezeFilesystemForSnapshot |-> ""]

Has(opts, k) == k \in DOMAIN opts

\* The function's progress: the descriptor being filled, the caller's map, and
\* once it has returned early (done) the error it returned
Start(opts) == [vol |-> ZeroVol, opts |-> opts, done |-> FALSE, err |-> NilErr]

\* return nil, err
ReturnNil(st, err) == [st EXCEPT !.vol = NoVol, !.done = TRUE, !.err = err]

\* a slip: only a negative timeout is replaced by the default
stepStaleReplicaTimeout_negativeOnly(st) ==
    IF st.done THEN st
    ELSE LET a == IF Has(st.opts, "staleReplicaTimeout")
                  THEN Atoi(st.opts["staleReplicaTimeout"])
                  ELSE [val |-> 0, err |-> NilErr]
         IN
         IF a.err # NilErr
         THEN ReturnNil(st, Wrap(a.err, "invalid parameter staleReplicaTimeout"))
         ELSE [st EXCEPT !.vol.StaleReplicaTimeout =
                            IF a.val < 0 THEN defaultStaleReplicaTimeout ELSE a.val]

\* lines 99-108
stepStaleReplicaTimeout(st) ==
    IF st.done THEN st
    ELSE LET a == IF Has(st.opts, "staleReplicaTimeout")
                  THEN Atoi(st.opts["staleReplicaTimeout"])
                  ELSE [val |-> 0, err |-> NilErr]
         IN
         IF a.err # NilErr
         THEN ReturnNil(st, Wrap(a.err, "invalid parameter staleReplicaTimeout"))
         ELSE [st EXCEPT !.vol.StaleReplicaTimeout =
                            IF a.val <= 0 THEN defaultStaleReplicaTimeout ELSE a.val]

\* lines 110-121
stepShare(st) ==
    IF st.done \/ ~Has(st.opts, "share") THEN st
    ELSE LET b == ParseBool(st.opts["share"]) IN
         IF b.err # NilErr
         THEN ReturnNil(st, Wrap(b.err, "invalid parameter share"))
         ELSE [st EXCEPT !.vol.AccessMode =
                            IF b.val THEN AccessModeReadWriteMany
                            ELSE AccessModeReadWriteOnce]

\* a slip: migratable is taken as requested, whatever the access mode
stepMigratable_asRequested(st) ==
    IF st.done \/ ~Has(st.opts, "migratable") THEN st
    ELSE LET b == ParseBool(st.opts["migratable"]) IN
         IF b.err # NilErr
         THEN ReturnNil(st, Wrap(b.err, "invalid parameter migratable"))
         ELSE [st EXCEPT !.vol.Migratable = b.val]

\* a slip: the map is rewritten but the descriptor keeps the requested flag
stepMigratable_mapOnly(st) ==
    IF st.done \/ ~Has(st.opts, "migratable") THEN st
    ELSE LET b == ParseBool(st.opts["migratable"]) IN
         IF b.err # NilErr
         THEN ReturnNil(st, Wrap(b.err, "invalid parameter migratable"))
         ELSE IF b.val /\ st.vol.AccessMode # AccessModeReadWriteMany
         THEN [st EXCEPT !.opts["migratable"] = FormatBool(FALSE),
                         !.vol.Migratable = b.val]
         ELSE [st EXCEPT !.vol.Migratable = b.val]

\* lines 123-136
stepMigratable(st) ==
    IF st.done \/ ~Has(st.opts, "migratable") THEN st
    ELSE LET b == ParseBool(st.opts["migratable"]) IN
         IF b.err # NilErr
         THEN ReturnNil(st, Wrap(b.err, "invalid parameter migratable"))
         ELSE IF b.val /\ st.vol.AccessMode # AccessModeReadWriteMany
         THEN [st EXCEPT !.opts["migratable"] = FormatBool(FALSE),
                         !.vol.Migratable = FALSE]
         ELSE [st EXCEPT !.vol.Migratable = b.val]

\* lines 138-144
stepEncrypted(st) ==
    IF st.done \/ ~Has(st.opts, "encrypted") THEN st
    ELSE LET b == ParseBool(st.opts["encrypted"]) IN
         IF b.err # NilErr
         THEN ReturnNil(st, Wrap(b.err, "invalid parameter encrypted"))
         ELSE [st EXCEPT !.vol.Encrypted = b.val]

\* lines 146-152: a negative count returns with errors.Wrap of Atoi's nil error
stepNumberOfReplicas(st) ==
    IF st.done \/ ~Has(st.opts, "numberOfReplicas") THEN st
    ELSE LET a == Atoi(st.opts["numberOfReplicas"]) IN
         IF a.err # NilErr \/ a.val < 0
         THEN ReturnNil(st, Wrap(a.err, "invalid parameter numberOfReplicas"))
         ELSE [st EXCEPT !.vol.NumberOfReplicas = a.val]

\* lines 154-167, 179-205, 249-254: a key checked by its types.Validate...
stepEnum(st, key, field) ==
    IF st.done \/ ~Has(st.opts, key) THEN st
    ELSE LET e == ValidateEnum(key, st.opts[key]) IN
         IF e # NilErr
         THEN ReturnNil(st, Wrap(e, "invalid parameter " \o key))
         ELSE [st EXCEPT !.vol[field] = st.opts[key]]

\* lines 169-177
stepDisableRevisionCounter(st) ==
    IF st.done THEN st
    ELSE IF ~Has(st.opts, "disableRevisionCounter")
    THEN [st EXCEPT !.vol.RevisionCounterDisabled =
                       defaultStorageClassDisableRevisionCounterParameter]
    ELSE LET b == ParseBool(st.opts["disableRevisionCounter"]) IN
         IF b.err # NilErr
         THEN ReturnNil(st, Wrap(b.err, "invalid parameter disableRevisionCounter"))
         ELSE [st EXCEPT !.vol.RevisionCounterDisabled = b.val]

\* lines 207-221, 245-247: a key copied as it is
stepCopy(st, key, field) ==
    IF st.done \/ ~Has(st.opts, key) THEN st
    ELSE [st EXCEPT !.vol[field] = st.opts[key]]

\* lines 223-230
stepRecurringJobSelector(st) ==
    IF st.done \/ ~Has(st.opts, "recurringJobSelector") THEN st
    ELSE LET j == UnmarshalJobs(st.opts["recurringJobSelector"]) IN
         IF j.err # NilErr
         THEN ReturnNil(st, Wrap(j.err, "invalid json format of recurringJobSelector"))
         ELSE [st EXCEPT !.vol.RecurringJobSelector = j.val]

\* lines 232-238
stepSelector(st, key, field) ==
    IF st.done \/ ~Has(st.opts, key) THEN st
    ELSE [st EXCEPT !.vol[field] = Split(st.opts[key])]

\* lines 240-243
stepDataEngine(st) ==
    IF st.done THEN st
    ELSE [st EXCEPT !.vol.DataEngine =
                       IF Has(st.opts, "dataEngine") THEN st.opts["dataEngine"]
                       ELSE DataEngineTypeV1]

\* getVolumeOptions(volumeID, volOptions): the descriptor and error returned,
\* and the caller's map afterwards (volumeID is only logged)
getVolumeOptions(opts) ==
    LET s1 == stepStaleReplicaTimeout(Start(opts))
        s2 == stepShare(s1)
        s3 == stepMigratable(s2)
        s4 == stepEncrypted(s3)
        s5 == stepNumberOfReplicas(s4)
        s6 == stepEnum(s5, "replicaAutoBalance", "ReplicaAutoBalance")
        s7 == stepEnum(s6, "dataLocality", "DataLocality")
        s8 == stepDisableRevisionCounter(s7)
        s9 == stepEnum(s8, "unmapMarkSnapChainRemoved", "UnmapMarkSnapChainRemoved")
        s10 == stepEnum(s9, "replicaSoftAntiAffinity", "ReplicaSoftAntiAffinity")
        s11 == stepEnum(s10, "replicaZoneSoftAntiAffinity", "ReplicaZoneSoftAntiAffinity")
        s12 == stepEnum(s11, "replicaDiskSoftAntiAffinity", "ReplicaDiskSoftAntiAffinity")
        s13 == stepCopy(s12, "fromBackup", "FromBackup")
        s14 == stepCopy(s13, "backupTargetName", "BackupTargetName")
        s15 == stepCopy(s14, "dataSource", "DataSource")
        s16 == stepCopy(s15, BackingImageParameterName, "BackingImage")
        s17 == stepRecurringJobSelector(s16)
        s18 == stepSelector(s17, "diskSelector", "DiskSelector")
        s19 == stepSelector(s18, "nodeSelector", "NodeSelector")
        s20 == stepDataEngine(s19)
        s21 == stepCopy(s20, "frontend", "Frontend")
        s22 == stepEnum(s21, "freezeFilesystemForSnapshot", "FreezeFilesystemForSnapshot")
    IN [vol |-> s22.vol, err |-> s22.err, opts |-> s22.opts]

-----------------------------------------------------------------------------
(* The caller of getVolumeOptions *)

\* at most MaxOpts keys in an option map
MaxOpts == 2

\* numeric texts: zero, positive, negative, signed, and texts Atoi rejects
IntTexts == {"", "0", "-0", "7", "+7", "-7", "70", "x", "7x", "-"}

IntKeys == {"staleReplicaTimeout", "numberOfReplicas"}
BoolKeys == {"share", "migratable", "encrypted", "disableRevisionCounter"}
EnumKeys ==
    {"replicaAutoBalance", "dataLocality", "unmapMarkSnapChainRemoved",
     "replicaSoftAntiAffinity", "replicaZoneSoftAntiAffinity",
     "replicaDiskSoftAntiAffinity", "freezeFilesystemForSnapshot"}
SelectorKeys == {"diskSelector", "nodeSelector"}
CopyKeys ==
    {"fromBackup", "backupTargetName", "dataSource", BackingImageParameterName,
     "dataEngine", "frontend"}
OtherKeys == {"fsType"}

OptionKeys ==
    IntKeys \cup BoolKeys \cup EnumKeys \cup SelectorKeys \cup CopyKeys
        \cup {"recurringJobSelector"} \cup OtherKeys

\* the values a caller passes under a key
OptionValues(k) ==
    IF k \in IntKeys THEN IntTexts
    ELSE IF k \in BoolKeys THEN {"true", "false", "1", "yes"}
    ELSE IF k \in EnumKeys THEN {"disabled", "best-effort", "bogus"}
    ELSE IF k \in SelectorKeys THEN {"ssd", "ssd,fast"}
    ELSE IF k = "recurringJobSelector" THEN JsonTexts
    ELSE IF k = "dataEngine" THEN {"v2"}
    ELSE {"a"}

\* The caller puts one more key into the map
SetOption ==
    /\ optPhase = "build"
    /\ Cardinality(DOMAIN volOptions) < MaxOpts
    /\ \E k \in OptionKeys \ DOMAIN volOptions : \E v \in OptionValues(k) :
          volOptions' = [x \in DOMAIN volOptions \cup {k} |->
                            IF x = k THEN v ELSE volOptions[x]]
    /\ UNCHANGED <<optArg, optPhase, vol, optErr, mountVars, hist, helperVars>>

\* The caller resolves its map (again, after a first call)
GetVolumeOptions ==
    /\ LET r == getVolumeOptions(volOptions) IN
          /\ vol' = r.vol
          /\ optErr' = r.err
          /\ volOptions' = r.opts
    /\ optArg' = volOptions
    /\ optPhase' = "done"
    /\ UNCHANGED <<mountVars, hist, helperVars>>

OptInit ==
    /\ fs = AbsentFs
    /\ mounter = [force |-> TRUE]
    /\ last = BlankCall("none", fs)
    /\ hist = "clean"
    /\ InitOptions
    /\ InitHelpers

OptNext == SetOption \/ GetVolumeOptions

OptSpec == OptInit /\ [][OptNext]_vars

-----------------------------------------------------------------------------
(* encoding/json on a map[string]string *)

\* a nil map
NilMap == [nil |-> TRUE]

\* m[k] of Go: the zero value when the key is missing or the map is nil
Lookup(m, k) == IF m # NilMap /\ k \in DOMAIN m THEN m[k] ELSE ""

RECURSIVE Escape(_)
\* the characters of s inside a JSON string
Escape(s) ==
    IF Len(s) = 0 THEN ""
    ELSE LET c == SubSeq(s, 1, 1) IN
         (IF c = "\"" THEN "\\\"" ELSE IF c = "\\" THEN "\\\\" ELSE c)
            \o Escape(SubSeq(s, 2, Len(s)))

Quote(s) == "\"" \o Escape(s) \o "\""

\* the keys the callers use, in the byte order json.Marshal sorts them in
MarshalKeyOrder ==
    <<"backingImageChecksum", "backingImageDataSourceType", "backingImageFoo",
      "backingImageName", "url">>

RECURSIVE MarshalFrom(_, _, _)
\* the members of m from the i-th key on; first: no member was written yet
MarshalFrom(m, i, first) ==
    IF i > Len(MarshalKeyOrder) THEN ""
    ELSE LET k == MarshalKeyOrder[i] IN
         IF k \in DOMAIN m
         THEN (IF first THEN "" ELSE ",") \o Quote(k) \o ":" \o Quote(m[k])
                 \o MarshalFrom(m, i + 1, FALSE)
         ELSE MarshalFrom(m, i + 1, first)

\* json.Marshal(m)
Marshal(m) ==
    IF m = NilMap THEN "null" ELSE "{" \o MarshalFrom(m, 1, TRUE) \o "}"

-----------------------------------------------------------------------------
(* updateVolumeParamsForBackingImage *)

BackingImageParameterDataSourceType == "backingImageDataSourceType"
BackingImageParameterChecksum == "backingImageChecksum"
BackingImageParameterDataSourceParameters == "backingImageDataSourceParameters"

BackingImageInfoFields ==
    <<BackingImageParameterName, BackingImageParameterDataSourceType,
      BackingImageParameterChecksum>>

\* a slip: the lifted keys stay in the map that is serialized
updateVolumeParamsForBackingImage_noDelete(volumeParameters, backingImageParameters) ==
    LET lifted == {BackingImageInfoFields[i] : i \in 1..Len(BackingImageInfoFields)}
        set == lifted \cup {BackingImageParameterDataSourceParameters}
    IN [volumeParameters |->
          [k \in DOMAIN volumeParameters \cup set |->
             IF k \in lifted THEN Lookup(backingImageParameters, k)
             ELSE IF k = BackingImageParameterDataSourceParameters
             THEN Marshal(backingImageParameters)
             ELSE volumeParameters[k]],
        backingImageParameters |-> backingImageParameters]

\* updateVolumeParamsForBackingImage: the two maps as the call leaves them
updateVolumeParamsForBackingImage(volumeParameters, backingImageParameters) ==
    LET lifted == {BackingImageInfoFields[i] : i \in 1..Len(BackingImageInfoFields)}
        set == lifted \cup {BackingImageParameterDataSourceParameters}
        rest == IF backingImageParameters = NilMap THEN NilMap
                ELSE [k \in DOMAIN backingImageParameters \ lifted |->
                         backingImageParameters[k]]
    IN [volumeParameters |->
          [k \in DOMAIN volumeParameters \cup set |->
             IF k \in lifted THEN Lookup(backingImageParameters, k)
             ELSE IF k = BackingImageParameterDataSourceParameters
             THEN Marshal(rest)
             ELSE volumeParameters[k]],
        backingImageParameters |-> rest]

\* the parameters of a backing image a request carries
BackingImageKeys ==
    {BackingImageParameterName, BackingImageParameterDataSourceType,
     BackingImageParameterChecksum, "backingImageFoo", "url"}

BackingImageValues(k) ==
    IF k = BackingImageParameterName THEN {"img1"}
    ELSE IF k = BackingImageParameterDataSourceType THEN {"download"}
    ELSE IF k = BackingImageParameterChecksum THEN {"c0ffee"}
    ELSE IF k = "url" THEN {"http://h/i", "a\"b\\c"}
    ELSE {"bar"}

\* the volume parameters the request starts from
VolumeParameterMaps ==
    {[k \in {} |-> ""],
     [k \in {"fsType"} |-> "a"],
     [k \in {BackingImageParameterName, "fsType"} |->
        IF k = "fsType" THEN "a" ELSE "old"]}

\* The caller puts one more parameter into the backing-image map
PutBackingImageParameter ==
    /\ ~bi.called
    /\ \E k \in BackingImageKeys : \E v \in BackingImageValues(k) :
          /\ bi.params = NilMap \/ k \notin DOMAIN bi.params
          /\ bi' = [bi EXCEPT !.params =
                       IF bi.params = NilMap THEN [x \in {k} |-> v]
                       ELSE [x \in DOMAIN bi.params \cup {k} |->
                               IF x = k THEN v ELSE bi.params[x]]]
    /\ UNCHANGED <<dirVars, access, stats, mountVars, hist, optVars,
                   probeVars>>

UpdateVolumeParamsForBackingImage ==
    /\ ~bi.called
    /\ LET r == updateVolumeParamsForBackingImage(volOptions, bi.params) IN
          /\ volOptions' = r.volumeParameters
          /\ bi' = [params |-> r.backingImageParameters, called |-> TRUE,
                    arg |-> bi.params, volumeParameters |-> volOptions,
                    out |-> r.volumeParameters]
    /\ UNCHANGED <<optArg, optPhase, vol, optErr,
                   dirVars, access, stats, mountVars, hist, probeVars>>

BackingImageInit ==
    /\ fs = AbsentFs
    /\ mounter = [force |-> TRUE]
    /\ last = BlankCall("none", fs)
    /\ hist = "clean"
    /\ volOptions \in VolumeParameterMaps
    /\ optArg = EmptyOptions
    /\ optPhase = "build"
    /\ vol = NoVol
    /\ optErr = NilErr
    /\ tree = [parent |-> "absent", writable |-> TRUE, searchable |-> TRUE,
               leaf |-> "absent"]
    /\ dlast = [op |-> "none"]
    /\ InitProbe
    /\ access = [vol |-> NoVol, cap |-> [nil |-> TRUE], called |-> FALSE,
                 ret |-> FALSE]
    /\ stats = [statfs |-> [err |-> FALSE, Blocks |-> 0, Bfree |-> 0, Bavail |-> 0,
                            Bsize |-> 4096, Files |-> 0, Ffree |-> 0],
                called |-> FALSE, volStats |-> [nil |-> TRUE], err |-> NilErr]
    /\ \E m \in {NilMap, EmptyOptions} :
          bi = [params |-> m, called |-> FALSE, arg |-> EmptyOptions,
                volumeParameters |-> EmptyOptions, out |-> EmptyOptions]

BackingImageNext ==
    \/ PutBackingImageParameter
    \/ UpdateVolumeParamsForBackingImage
    \/ GetVolumeOptions

BackingImageSpec == BackingImageInit /\ [][BackingImageNext]_vars

-----------------------------------------------------------------------------
(* ensureDirectory *)

DirPath == "/data/dir"

\* the path's parent directory and the entry at the path
TreeStates ==
    {t \in [parent : {"absent", "dir", "file"}, writable : BOOLEAN,
            searchable : BOOLEAN, leaf : {"absent", "dir", "file"}] :
       /\ t.parent # "dir" => (t.leaf = "absent" /\ t.writable /\ t.searchable)}

\* os.Stat(path)
osStat(t) ==
    IF t.parent = "absent"
    THEN [err |-> MkErr("ENOENT", "stat " \o DirPath \o ": no such file or directory"),
          isDir |-> FALSE]
    ELSE IF t.parent = "file"
    THEN [err |-> MkErr("ENOTDIR", "stat " \o DirPath \o ": not a directory"),
          isDir |-> FALSE]
    ELSE IF ~t.searchable
    THEN [err |-> MkErr("EACCES", "stat " \o DirPath \o ": permission denied"),
          isDir |-> FALSE]
    ELSE IF t.leaf = "absent"
    THEN [err |-> MkErr("ENOENT", "stat " \o DirPath \o ": no such file or directory"),
          isDir |-> FALSE]
    ELSE [err |-> NilErr, isDir |-> t.leaf = "dir"]

\* os.MkdirAll(path, os.ModePerm) on a path os.Stat did not find
osMkdirAll(t) ==
    IF t.parent = "absent"
    THEN [err |-> NilErr,
          tree |-> [parent |-> "dir", writable |-> TRUE, searchable |-> TRUE,
                    leaf |-> "dir"]]
    ELSE IF t.writable
    THEN [err |-> NilErr, tree |-> [t EXCEPT !.leaf = "dir"]]
    ELSE [err |-> MkErr("EACCES", "mkdir " \o DirPath \o ": permission denied"),
          tree |-> t]

\* a slip: what is in the way of the folder is replaced by the folder
ensureDirectory_replace(t) ==
    LET st == osStat(t) IN
    IF IsNotExist(st.err)
    THEN LET mk == osMkdirAll(t) IN
         IF mk.err # NilErr THEN [ret |-> FALSE, err |-> mk.err, tree |-> mk.tree]
         ELSE [ret |-> TRUE, err |-> NilErr, tree |-> mk.tree]
    ELSE IF st.err # NilErr THEN [ret |-> FALSE, err |-> st.err, tree |-> t]
    ELSE IF st.isDir THEN [ret |-> TRUE, err |-> NilErr, tree |-> t]
    ELSE [ret |-> TRUE, err |-> NilErr, tree |-> [t EXCEPT !.leaf = "dir"]]

\* ensureDirectory(path): the boolean, the error, the tree afterwards
ensureDirectory(t) ==
    LET st == osStat(t) IN
    IF IsNotExist(st.err)
    THEN LET mk == osMkdirAll(t) IN
         IF mk.err # NilErr THEN [ret |-> FALSE, err |-> mk.err, tree |-> mk.tree]
         ELSE [ret |-> TRUE, err |-> NilErr, tree |-> mk.tree]
    ELSE IF st.err # NilErr THEN [ret |-> FALSE, err |-> st.err, tree |-> t]
    ELSE IF st.isDir THEN [ret |-> TRUE, err |-> NilErr, tree |-> t]
    ELSE [ret |-> FALSE,
          err |-> MkErr("errorString",
                        "path " \o DirPath \o " exists but is not a folder"),
          tree |-> t]

\* Somebody else changes the parent or the entry
ChangeTree ==
    /\ \E t \in TreeStates : t # tree /\ tree' = t
    /\ UNCHANGED <<dlast, access, stats, bi, mountVars, hist, optVars,
                   probeVars>>

EnsureDirectory ==
    /\ LET r == ensureDirectory(tree) IN
          /\ tree' = r.tree
          /\ dlast' = [op |-> "ensureDirectory", pre |-> tree, post |-> r.tree,
                       ret |-> r.ret, err |-> r.err]
    /\ UNCHANGED <<access, stats, bi, mountVars, hist, optVars,
                   probeVars>>

DirInit == OptInit

DirNext == ChangeTree \/ EnsureDirectory

DirSpec == DirInit /\ [][DirNext]_vars

-----------------------------------------------------------------------------
(* requiresSharedAccess *)

NoCap == [nil |-> TRUE]

\* csi.VolumeCapability_AccessMode_Mode
CapabilityModes ==
    {"UNKNOWN", "SINGLE_NODE_WRITER", "SINGLE_NODE_READER_ONLY",
     "MULTI_NODE_READER_ONLY", "MULTI_NODE_SINGLE_WRITER",
     "MULTI_NODE_MULTI_WRITER", "SINGLE_NODE_SINGLE_WRITER",
     "SINGLE_NODE_MULTI_WRITER"}

\* the capabilities of a request: none, or one with its access mode
Capabilities == {NoCap} \cup {[AccessMode |-> [Mode |-> m]] : m \in CapabilityModes}

\* the volumes handed in: none, or one with its access mode and migratable flag
SharedAccessVolumes ==
    {NoVol} \cup
    {[ZeroVol EXCEPT !.AccessMode = a, !.Migratable = m] :
        a \in {"", AccessModeReadWriteOnce, AccessModeReadWriteMany},
        m \in BOOLEAN}

\* a slip: the volume is only looked at when the request has no capability
requiresSharedAccess_capFirst(v, c) ==
    LET isSharedVolume ==
            IF v # NoVol /\ c = NoCap
            THEN v.AccessMode = AccessModeReadWriteMany \/ v.Migratable
            ELSE FALSE
        mode == IF c # NoCap THEN c.AccessMode.Mode ELSE "UNKNOWN"
    IN \/ isSharedVolume
       \/ mode = "MULTI_NODE_READER_ONLY"
       \/ mode = "MULTI_NODE_SINGLE_WRITER"
       \/ mode = "MULTI_NODE_MULTI_WRITER"

requiresSharedAccess(v, c) ==
    LET isSharedVolume ==
            IF v # NoVol
            THEN v.AccessMode = AccessModeReadWriteMany \/ v.Migratable
            ELSE FALSE
        mode == IF c # NoCap THEN c.AccessMode.Mode ELSE "UNKNOWN"
    IN \/ isSharedVolume
       \/ mode = "MULTI_NODE_READER_ONLY"
       \/ mode = "MULTI_NODE_SINGLE_WRITER"
       \/ mode = "MULTI_NODE_MULTI_WRITER"

\* The caller looks at another volume
PickVolume ==
    /\ \E v \in SharedAccessVolumes :
          /\ v # access.vol
          /\ access' = [access EXCEPT !.vol = v, !.called = FALSE, !.ret = FALSE]
    /\ UNCHANGED <<dirVars, stats, bi, mountVars, hist, optVars,
                   probeVars>>

\* A request arrives with another capability
PickCapability ==
    /\ \E c \in Capabilities :
          /\ c # access.cap
          /\ access' = [access EXCEPT !.cap = c, !.called = FALSE, !.ret = FALSE]
    /\ UNCHANGED <<dirVars, stats, bi, mountVars, hist, optVars,
                   probeVars>>

RequiresSharedAccess ==
    /\ access' = [access EXCEPT !.called = TRUE,
                                !.ret = requiresSharedAccess(access.vol, access.cap)]
    /\ UNCHANGED <<dirVars, stats, bi, mountVars, hist, optVars,
                   probeVars>>

AccessInit == OptInit

AccessNext == PickVolume \/ PickCapability \/ RequiresSharedAccess

AccessSpec == AccessInit /\ [][AccessNext]_vars

-----------------------------------------------------------------------------
(* getFilesystemStatistics *)

\* the largest block count and inode count of a filesystem
MaxBlocks == 4
MaxInodes == 2

BlockSizes == {512, 4096}

\* unix.Statfs_t as the kernel fills it: free blocks are among the blocks, the
\* blocks available to unprivileged users among the free ones.  With these
\* counts every product stays far inside int64.
StatfsResults ==
    {r \in [err : BOOLEAN, Blocks : 0..MaxBlocks, Bfree : 0..MaxBlocks,
            Bavail : 0..MaxBlocks, Bsize : BlockSizes, Files : 0..MaxInodes,
            Ffree : 0..MaxInodes] :
       /\ r.Bfree <= r.Blocks
       /\ r.Bavail <= r.Bfree
       /\ r.Ffree <= r.Files}

NoStats == [nil |-> TRUE]

\* a slip: used is taken as total minus available
getFilesystemStatistics_fromAvailable(st) ==
    IF st.err
    THEN [volStats |-> NoStats,
          err |-> MkErr("EIO", "input/output error")]
    ELSE [volStats |->
            [availableBytes |-> st.Bavail * st.Bsize,
             totalBytes |-> st.Blocks * st.Bsize,
             usedBytes |-> st.Blocks * st.Bsize - st.Bavail * st.Bsize,
             availableInodes |-> st.Ffree,
             totalInodes |-> st.Files,
             usedInodes |-> st.Files - st.Ffree],
          err |-> NilErr]

\* getFilesystemStatistics(volumePath), st being what unix.Statfs fills in
getFilesystemStatistics(st) ==
    IF st.err
    THEN [volStats |-> NoStats,
          err |-> MkErr("EIO", "input/output error")]
    ELSE [volStats |->
            [availableBytes |-> st.Bavail * st.Bsize,
             totalBytes |-> st.Blocks * st.Bsize,
             usedBytes |-> (st.Blocks - st.Bfree) * st.Bsize,
             availableInodes |-> st.Ffree,
             totalInodes |-> st.Files,
             usedInodes |-> st.Files - st.Ffree],
          err |-> NilErr]

\* st with one of its fields changed
StatfsChanges(st) ==
    {[st EXCEPT !.err = e] : e \in BOOLEAN}
      \cup {[st EXCEPT !.Blocks = n] : n \in 0..MaxBlocks}
      \cup {[st EXCEPT !.Bfree = n] : n \in 0..MaxBlocks}
      \cup {[st EXCEPT !.Bavail = n] : n \in 0..MaxBlocks}
      \cup {[st EXCEPT !.Bsize = n] : n \in BlockSizes}
      \cup {[st EXCEPT !.Files = n] : n \in 0..MaxInodes}
      \cup {[st EXCEPT !.Ffree = n] : n \in 0..MaxInodes}

\* The filesystem fills up, empties, is resized, stops answering
StatfsChange ==
    /\ \E r \in StatfsChanges(stats.statfs) \cap StatfsResults :
          /\ r # stats.statfs
          /\ stats' = [statfs |-> r, called |-> FALSE, volStats |-> NoStats,
                       err |-> NilErr]
    /\ UNCHANGED <<dirVars, access, bi, mountVars, hist, optVars,
                   probeVars>>

GetFilesystemStatistics ==
    /\ LET r == getFilesystemStatistics(stats.statfs) IN
          stats' = [stats EXCEPT !.called = TRUE, !.volStats = r.volStats,
                                 !.err = r.err]
    /\ UNCHANGED <<dirVars, access, bi, mountVars, hist, optVars,
                   probeVars>>

StatsInit == OptInit

StatsNext == StatfsChange \/ GetFilesystemStatistics

StatsSpec == StatsInit /\ [][StatsNext]_vars

-----------------------------------------------------------------------------
(* Concurrent callers of ensureMountPoint, the probe taken step by step *)

\* the sentinel as a caller at the path sees it
Visible(s, f) == IF f.mounted THEN s.inMount ELSE s.inDir

\* a slip: a failed write returns past the deferred close and remove
syncMountPointDirectoryStep_noDefer(step, err) ==
    CASE step = "openDir" -> IF err # NilErr THEN "return" ELSE "readdir"
      [] step = "readdir" ->
            IF err # NilErr /\ err # ErrEOF THEN "closeDir" ELSE "create"
      [] step = "create" -> IF err # NilErr THEN "closeDir" ELSE "write"
      [] step = "write" -> IF err # NilErr THEN "closeDir" ELSE "closeFile"
      [] step = "closeFile" -> "remove"
      [] step = "remove" -> "closeDir"
      [] step = "closeDir" -> "return"

\* The control flow of syncMountPointDirectory: the step after `step`, which
\* answered err.  The deferred calls run in reverse order of their defer:
\* f.Close and os.Remove, then d.Close.
syncMountPointDirectoryStep(step, err) ==
    CASE step = "openDir" -> IF err # NilErr THEN "return" ELSE "readdir"
      [] step = "readdir" ->
            IF err # NilErr /\ err # ErrEOF THEN "closeDir" ELSE "create"
      [] step = "create" -> IF err # NilErr THEN "closeDir" ELSE "write"
      [] step = "write" -> "closeFile"
      [] step = "closeFile" -> "remove"
      [] step = "remove" -> "closeDir"
      [] step = "closeDir" -> "return"

\* a slip: a failed os.Remove fails the probe
syncMountPointDirectoryResult_removeErr(stepErr, rmErr) ==
    IF stepErr # NilErr THEN stepErr ELSE rmErr

\* What syncMountPointDirectory returns: the error of the step that failed;
\* the errors of the deferred calls are logged
syncMountPointDirectoryResult(stepErr, rmErr) == stepErr

\* os.Remove(tempFile): present says whether the file is there; a filesystem
\* whose writes fail may refuse the removal as well (o = "fail")
osRemove(f, present, o) ==
    IF ~present
    THEN [err |-> MkErr("ENOENT", "remove " \o PathName \o "/"
                           \o tempTestMountPointValidStatusFile
                           \o ": no such file or directory"),
          present |-> FALSE]
    ELSE IF f.ioFault = "write" /\ o = "fail"
    THEN [err |-> MkErr("EIO", "remove " \o PathName \o "/"
                           \o tempTestMountPointValidStatusFile
                           \o ": input/output error"),
          present |-> TRUE]
    ELSE [err |-> NilErr, present |-> FALSE]

SetVisible(s, f, present) ==
    IF f.mounted THEN [s EXCEPT !.inMount = present]
    ELSE [s EXCEPT !.inDir = present]

\* some caller holds a handle on the directory or the sentinel
HandlesOpen == \E p \in Callers : procs[p].d \/ procs[p].f

otherVars == <<mounter, last, hist, optVars, dirVars, access, stats, bi>>

\* ensureMountPoint is called: the mount-table check
CallEnsureMountPoint ==
    \E p \in Callers :
       /\ procs[p].pc = "idle"
       /\ LET t == IsMountPoint(fs)
              c0 == [BlankCall("ensureMountPoint", fs) EXCEPT
                        !.isMnt = t.isMnt, !.tableErr = t.err,
                        !.calls = <<"IsMountPoint">>]
          IN IF IsNotExist(t.err)
             THEN \E o \in Outcomes :
                     LET a == ensureAbsent(fs, o) IN
                     /\ fs' = a.fs
                     /\ procs' = [procs EXCEPT ![p].pc = "done",
                                     ![p].call = [c0 EXCEPT !.calls = @ \o a.calls,
                                                            !.ret = a.ret,
                                                            !.err = a.err]]
             ELSE /\ procs' = [procs EXCEPT
                                 ![p].pc = IF IsCorruptedMnt(t.err) THEN "unmount"
                                           ELSE "openDir",
                                 ![p].call = c0]
                  /\ UNCHANGED fs
       /\ UNCHANGED <<sentinel, otherVars>>

\* os.OpenFile(targetPath, os.O_SYNC, 0750)
OpenDir ==
    \E p \in Callers :
       /\ procs[p].pc = "openDir"
       /\ LET err == IF fs.ioFault = "open" THEN ProbeErr("open") ELSE NilErr IN
          procs' = [procs EXCEPT
                       ![p].pc = syncMountPointDirectoryStep("openDir", err),
                       ![p].d = (err = NilErr),
                       ![p].stepErr = err,
                       ![p].call.probed = TRUE,
                       ![p].call.calls = @ \o <<"syncMountPointDirectory">>]
       /\ UNCHANGED <<fs, sentinel, otherVars>>

\* d.Readdirnames(1)
ReadDir ==
    \E p \in Callers :
       /\ procs[p].pc = "readdir"
       /\ LET err == Readdirnames([fs EXCEPT
                                     !.empty = fs.empty /\ ~Visible(sentinel, fs)])
              next == syncMountPointDirectoryStep("readdir", err)
          IN procs' = [procs EXCEPT
                         ![p].pc = next,
                         ![p].stepErr = IF next = "create" THEN NilErr ELSE err]
       /\ UNCHANGED <<fs, sentinel, otherVars>>

\* os.OpenFile(tempFile, os.O_CREATE|os.O_RDWR|os.O_SYNC|os.O_TRUNC, 0666)
CreateSentinel ==
    \E p \in Callers :
       /\ procs[p].pc = "create"
       /\ LET err == IF fs.ioFault = "create" THEN ProbeErr("create") ELSE NilErr IN
          /\ procs' = [procs EXCEPT
                          ![p].pc = syncMountPointDirectoryStep("create", err),
                          ![p].f = (err = NilErr),
                          ![p].created = (err = NilErr),
                          ![p].stepErr = err]
          /\ sentinel' = IF err = NilErr THEN SetVisible(sentinel, fs, TRUE)
                         ELSE sentinel
       /\ UNCHANGED <<fs, otherVars>>

\* f.WriteString(tempFile)
WriteSentinel ==
    \E p \in Callers :
       /\ procs[p].pc = "write"
       /\ LET err == IF fs.ioFault = "write" THEN ProbeErr("write") ELSE NilErr IN
          procs' = [procs EXCEPT
                       ![p].pc = syncMountPointDirectoryStep("write", err),
                       ![p].stepErr = err]
       /\ UNCHANGED <<fs, sentinel, otherVars>>

\* deferred: f.Close()
CloseFile ==
    \E p \in Callers :
       /\ procs[p].pc = "closeFile"
       /\ procs' = [procs EXCEPT
                       ![p].pc = syncMountPointDirectoryStep("closeFile", NilErr),
                       ![p].f = FALSE]
       /\ UNCHANGED <<fs, sentinel, otherVars>>

\* deferred: os.Remove(tempFile)
RemoveSentinel ==
    \E p \in Callers : \E o \in {"ok", "fail"} :
       /\ procs[p].pc = "remove"
       /\ LET r == osRemove(fs, Visible(sentinel, fs), o) IN
          /\ procs' = [procs EXCEPT
                          ![p].pc = syncMountPointDirectoryStep("remove", r.err),
                          ![p].removed = TRUE,
                          ![p].rmErr = r.err]
          /\ sentinel' = [SetVisible(sentinel, fs, r.present) EXCEPT
                            !.removeFailed = @ \/ r.err # NilErr]
       /\ UNCHANGED <<fs, otherVars>>

\* deferred: d.Close()
CloseDir ==
    \E p \in Callers :
       /\ procs[p].pc = "closeDir"
       /\ procs' = [procs EXCEPT
                       ![p].pc = syncMountPointDirectoryStep("closeDir", NilErr),
                       ![p].d = FALSE]
       /\ UNCHANGED <<fs, sentinel, otherVars>>

\* syncMountPointDirectory returns to ensureMountPoint (lines 312-315, 328)
ProbeReturns ==
    \E p \in Callers :
       /\ procs[p].pc = "return"
       /\ LET e == syncMountPointDirectoryResult(procs[p].stepErr, procs[p].rmErr) IN
          procs' = [procs EXCEPT
                       ![p].pc = IF e # NilErr THEN "unmount" ELSE "done",
                       ![p].call.probeErr = e,
                       ![p].call.ret = IF e # NilErr THEN FALSE ELSE procs[p].call.isMnt,
                       ![p].call.err = IF e # NilErr THEN NilErr
                                       ELSE procs[p].call.tableErr]
       /\ UNCHANGED <<fs, sentinel, otherVars>>

\* the corrupt branch (lines 318-326); a mount with open handles is busy
UnmountCorrupt ==
    \E p \in Callers : \E o \in Outcomes :
       /\ procs[p].pc = "unmount"
       /\ (HandlesOpen /\ fs.mounted) => o.umount = "fail"
       /\ LET r == recoverCorrupt(fs, mounter, o, procs[p].call.tableErr) IN
          /\ fs' = r.fs
          /\ procs' = [procs EXCEPT
                          ![p].pc = "done",
                          ![p].call.calls = @ \o r.calls,
                          ![p].call.backendErr = r.backendErr,
                          ![p].call.umountErr = r.umountErr,
                          ![p].call.ret = r.ret,
                          ![p].call.err = r.err]
       /\ UNCHANGED <<sentinel, otherVars>>

\* the path is a mount, healthy or with one of the faults
ProbeInit ==
    /\ fs \in {f \in [exists : {TRUE}, mounted : {TRUE}, statErr : StatErrs,
                       ioFault : IoFaults, empty : BOOLEAN] : TRUE}
    /\ mounter \in [force : BOOLEAN]
    /\ last = BlankCall("none", fs)
    /\ hist = "clean"
    /\ InitOptions
    /\ InitHelpers

ProbeNext ==
    \/ CallEnsureMountPoint
    \/ OpenDir
    \/ ReadDir
    \/ CreateSentinel
    \/ WriteSentinel
    \/ CloseFile
    \/ RemoveSentinel
    \/ CloseDir
    \/ ProbeReturns
    \/ UnmountCorrupt

ProbeSpec == ProbeInit /\ [][ProbeNext]_vars

-----------------------------------------------------------------------------
(* Properties of the mount lifecycle *)

IsUnmountCall(c) == c \in {"Unmount", "UnmountWithForce 30s"}

Issued(call, c) == \E i \in 1..Len(call.calls) : call.calls[i] = c

IssuedUnmounts(call) ==
    Cardinality({i \in 1..Len(call.calls) : IsUnmountCall(call.calls[i])})

NotMountedClass(e) ==
    \/ Contains(e.msg, "not mounted")
    \/ Contains(e.msg, "no mount point specified")

\* an ensureMountPoint call on an existing path whose mount-table check
\* succeeded and whose probe failed
ProbeDetected ==
    /\ last.op = "ensureMountPoint"
    /\ last.pre.exists
    /\ last.tableErr = NilErr
    /\ last.probed /\ last.probeErr # NilErr

\* C1 as stated: on an existing path whose mount-table check succeeds and whose
\* probe fails, ensureMountPoint returns false with no error and the path is
\* unmounted on return.
C1_Original ==
    ProbeDetected =>
        /\ last.ret = FALSE
        /\ last.err = NilErr
        /\ ~fs.mounted

\* C1 amended: on such a path ensureMountPoint calls unmount once and returns
\* false; it returns no error exactly when unmount returned none, and then the
\* path is unmounted on return; when unmount fails it returns an error.
C1_ProbeFailureUnmounts ==
    ProbeDetected =>
        /\ last.ret = FALSE
        /\ IssuedUnmounts(last) = 1
        /\ (last.err = NilErr) <=> (last.umountErr = NilErr)
        /\ last.umountErr = NilErr => ~fs.mounted

C1_Witness ==
    /\ ProbeDetected
    /\ last.pre.mounted /\ last.isMnt
    /\ last.err = NilErr
    /\ ~fs.mounted

\* the error that made ensureMountPoint count the path as corrupt
CorruptionEvidence(call) ==
    IF IsCorruptedMnt(call.tableErr) THEN call.tableErr ELSE call.probeErr

\* C2: when ensureMountPoint detects corruption (mount table or probe) and the
\* unmount fails, the returned error embeds the corruption evidence (the
\* probe's error when the probe detected it) and the unmount failure.
C2_ErrorEmbedsEvidence ==
    ( /\ last.op = "ensureMountPoint"
      /\ IsCorruptedMnt(last.tableErr) \/ (last.probed /\ last.probeErr # NilErr)
      /\ last.umountErr # NilErr )
    =>  /\ last.err # NilErr
        /\ Contains(last.err.msg, CorruptionEvidence(last).msg)
        /\ Contains(last.err.msg, last.umountErr.msg)

\* C3 as stated: on a path that does not exist, ensureMountPoint creates the
\* directory, runs no probe and no unmount, and returns false with no error.
C3_Original ==
    (last.op = "ensureMountPoint" /\ ~last.pre.exists) =>
        /\ fs.exists
        /\ ~last.probed
        /\ IssuedUnmounts(last) = 0
        /\ last.ret = FALSE
        /\ last.err = NilErr

\* C3 amended: on a path that does not exist, ensureMountPoint calls
\* os.MkdirAll, runs no probe and no unmount, and returns false, never true; it
\* returns MkdirAll's error: none exactly when the directory exists on return.
C3_AbsentPathCreated ==
    (last.op = "ensureMountPoint" /\ ~last.pre.exists) =>
        /\ last.calls = <<"IsMountPoint", "MkdirAll">>
        /\ ~last.probed
        /\ IssuedUnmounts(last) = 0
        /\ last.ret = FALSE
        /\ (last.err = NilErr) <=> fs.exists
        /\ last.err # NilErr => last.err.kind = "EACCES"
        /\ ~fs.mounted

C3_Witness ==
    /\ last.op = "ensureMountPoint" /\ ~last.pre.exists
    /\ fs.exists /\ last.err = NilErr /\ last.ret = FALSE

\* C4: ensureMountPoint returns true only when, in that call, the mount-table
\* check reported a mount point with no corruption error and the probe ran and
\* succeeded; in every other case it returns false.
C4_HealthyOnlyWhenBothPass ==
    last.op = "ensureMountPoint" =>
        ( last.ret = TRUE <=>
            /\ last.isMnt
            /\ ~IsCorruptedMnt(last.tableErr)
            /\ last.probed /\ last.probeErr = NilErr
            /\ syncMountPointDirectory(last.pre) = NilErr )

C4_Witness ==
    /\ last.op = "ensureMountPoint"
    /\ last.ret = TRUE
    /\ last.pre.mounted

\* C5: unmount returns no error when the backend answers with an error of the
\* "not mounted" / "no mount point specified" class, so every unmount of a path
\* with nothing mounted returns no error and leaves it unmounted, however many
\* are made in a row.
C5_UnmountIdempotent ==
    last.op = "unmount" =>
        /\ (last.backendErr # NilErr /\ NotMountedClass(last.backendErr))
               => last.err = NilErr
        /\ ~last.pre.mounted => (last.err = NilErr /\ ~fs.mounted)

C5_Witness ==
    /\ last.op = "unmount" /\ last.prevOp = "unmount"
    /\ ~last.pre.mounted
    /\ last.backendErr # NilErr
    /\ last.err = NilErr /\ ~fs.mounted

\* C6: when the backend's unmount returns an error outside the "not mounted" /
\* "no mount point specified" class, unmount returns exactly that error.
C6_OtherErrorsVerbatim ==
    ( /\ last.op # "none"
      /\ last.backendErr # NilErr
      /\ ~NotMountedClass(last.backendErr) )
    => last.umountErr = last.backendErr

C6_Witness ==
    /\ last.op = "unmount"
    /\ last.backendErr # NilErr /\ ~NotMountedClass(last.backendErr)
    /\ last.err = last.backendErr

\* C7: unmountAndCleanupMountPoint unmounts first; when unmount returns an error
\* it returns that error, CleanupMountPoint is not called and the directory is
\* left as it was; CleanupMountPoint runs only after an unmount without error.
C7_CleanupOnlyAfterUnmount ==
    last.op = "unmountAndCleanupMountPoint" =>
        /\ Len(last.calls) >= 1 /\ IsUnmountCall(last.calls[1])
        /\ last.umountErr # NilErr =>
              /\ last.err = last.umountErr
              /\ ~Issued(last, "CleanupMountPoint")
              /\ fs = last.pre
        /\ Issued(last, "CleanupMountPoint") =>
              /\ last.umountErr = NilErr
              /\ last.calls[Len(last.calls)] = "CleanupMountPoint"

C7_Witness ==
    /\ last.op = "unmountAndCleanupMountPoint"
    /\ last.umountErr # NilErr
    /\ last.pre.exists /\ fs.exists
    /\ ~Issued(last, "CleanupMountPoint")

\* C17 as stated: once a call has classified the path corrupt, no call of
\* ensureMountPoint reports it healthy until an unmount has succeeded and a
\* new external mount has been performed.
C17_Original ==
    (last.op = "ensureMountPoint" /\ last.ret) => hist = "clean"

\* C17: a call that classifies the path corrupt unmounts in the same call.
\* When an unmount has succeeded after the classification the path is not
\* mounted, and no call reports it healthy until a new external mount; when
\* the unmount failed the mount is still in place (and a later call probes it
\* afresh).
C17_HealthyNotBeforeRemount ==
    /\ (last.op = "ensureMountPoint" /\ last.ret) => hist # "unmounted"
    /\ hist = "unmounted" => ~fs.mounted
    /\ hist = "corrupt" => fs.mounted
    /\ (last.op = "ensureMountPoint" /\ CorruptionEvidence(last) # NilErr)
          => /\ IssuedUnmounts(last) = 1
             /\ hist = IF last.umountErr = NilErr THEN "unmounted" ELSE "corrupt"

\* a call on the unmounted directory after a corrupt mount was unmounted
C17_Witness ==
    /\ hist = "unmounted"
    /\ last.op = "ensureMountPoint"
    /\ CorruptionEvidence(last) = NilErr
    /\ ~last.ret

\* C18: every call of unmount issues exactly one backend request, the forced
\* one with the 30-second timeout when the backend has it and the plain one
\* otherwise, also when that request fails; ensureMountPoint and
\* unmountAndCleanupMountPoint issue at most one.
C18_OneUnmountRequest ==
    /\ last.op = "unmount" =>
          last.calls = IF mounter.force THEN <<"UnmountWithForce 30s">>
                       ELSE <<"Unmount">>
    /\ last.op # "none" =>
          /\ IssuedUnmounts(last) <= 1
          /\ \A i \in 1..Len(last.calls) :
                IsUnmountCall(last.calls[i]) =>
                   (last.calls[i] = "UnmountWithForce 30s") = mounter.force

\* a forced unmount failed and was not followed by another request
C18_Witness ==
    /\ last.op = "unmount"
    /\ mounter.force
    /\ last.err # NilErr
    /\ last.calls = <<"UnmountWithForce 30s">>

-----------------------------------------------------------------------------
(* Properties of ensureDirectory *)

\* C11: the boolean of ensureDirectory reports creation: true exactly when the
\* path was absent and the call created it, false without an error when the
\* path already exists as a directory.
C11_BooleanReportsCreation ==
    dlast.op = "ensureDirectory" =>
       /\ dlast.ret <=> ( /\ ~(dlast.pre.parent = "dir" /\ dlast.pre.leaf # "absent")
                          /\ dlast.post.leaf = "dir" )
       /\ (dlast.pre.leaf = "dir" /\ dlast.pre.searchable) =>
             (~dlast.ret /\ dlast.err = NilErr)

\* C12: when the path exists and is not a directory, ensureDirectory returns
\* (false, error) and leaves the parent and the entry as they were.
C12_NonDirectoryUntouched ==
    (dlast.op = "ensureDirectory" /\ dlast.pre.leaf = "file") =>
       /\ ~dlast.ret
       /\ dlast.err # NilErr
       /\ dlast.post = dlast.pre
       /\ tree.leaf = "file" => tree.parent = "dir"
       /\ dlast.pre.searchable =>
             dlast.err.msg = "path /data/dir exists but is not a folder"

\* a call found a file at the path
C12_Witness ==
    /\ dlast.op = "ensureDirectory"
    /\ dlast.pre.leaf = "file"
    /\ dlast.pre.searchable
    /\ ~dlast.ret

-----------------------------------------------------------------------------
(* Properties of requiresSharedAccess *)

MultiNodeModes ==
    {"MULTI_NODE_READER_ONLY", "MULTI_NODE_SINGLE_WRITER", "MULTI_NODE_MULTI_WRITER"}

-----------------------------------------------------------------------------
(* Properties of getFilesystemStatistics *)

\* C15: for every statfs result with free_blocks <= total_blocks, usedBytes is
\* (total_blocks - free_blocks) * block_size, and that differs from
\* totalBytes - availableBytes whenever free_blocks differs from
\* available_blocks.
C15_UsedBytesFromFreeBlocks ==
    (stats.called /\ ~stats.statfs.err) =>
       /\ stats.err = NilErr
       /\ stats.volStats.usedBytes
             = (stats.statfs.Blocks - stats.statfs.Bfree) * stats.statfs.Bsize
       /\ stats.statfs.Bfree # stats.statfs.Bavail =>
             stats.volStats.usedBytes
                # stats.volStats.totalBytes - stats.volStats.availableBytes

\* a filesystem with blocks reserved for the superuser
C15_Witness ==
    /\ stats.called
    /\ ~stats.statfs.err
    /\ stats.statfs.Bavail < stats.statfs.Bfree
    /\ stats.statfs.Bfree < stats.statfs.Blocks
    /\ stats.volStats.usedBytes > 0

-----------------------------------------------------------------------------
(* Properties of updateVolumeParamsForBackingImage *)

RECURSIVE ReadString(_, _, _)
\* the JSON string of t whose first character (after the quote) is at i
ReadString(t, i, acc) ==
    IF i > Len(t) THEN [ok |-> FALSE, val |-> acc, next |-> i]
    ELSE LET c == SubSeq(t, i, i) IN
         IF c = "\"" THEN [ok |-> TRUE, val |-> acc, next |-> i + 1]
         ELSE IF c = "\\"
         THEN IF i + 1 > Len(t) THEN [ok |-> FALSE, val |-> acc, next |-> i]
              ELSE ReadString(t, i + 2, acc \o SubSeq(t, i + 1, i + 1))
         ELSE ReadString(t, i + 1, acc \o c)

RECURSIVE ReadMembers(_, _, _)
\* the members of the JSON object t from position i on, added to acc
ReadMembers(t, i, acc) ==
    IF i + 1 > Len(t) \/ SubSeq(t, i, i) # "\""
    THEN [ok |-> FALSE, map |-> acc]
    ELSE LET k == ReadString(t, i + 1, "") IN
         IF ~k.ok \/ k.next + 1 > Len(t) \/ SubSeq(t, k.next, k.next + 1) # ":\""
         THEN [ok |-> FALSE, map |-> acc]
         ELSE LET v == ReadString(t, k.next + 2, "")
                  more == [x \in DOMAIN acc \cup {k.val} |->
                             IF x = k.val THEN v.val ELSE acc[x]]
              IN IF ~v.ok \/ v.next > Len(t) THEN [ok |-> FALSE, map |-> acc]
                 ELSE IF SubSeq(t, v.next, v.next) = ","
                 THEN ReadMembers(t, v.next + 1, more)
                 ELSE [ok |-> SubSeq(t, v.next, Len(t)) = "}", map |-> more]

\* what a reader of the JSON text t gets: json.Unmarshal into a
\* map[string]string
UnmarshalMap(t) ==
    IF t = "null" THEN [ok |-> TRUE, map |-> NilMap]
    ELSE IF t = "{}" THEN [ok |-> TRUE, map |-> [k \in {} |-> ""]]
    ELSE IF Len(t) < 2 \/ SubSeq(t, 1, 1) # "{"
    THEN [ok |-> FALSE, map |-> NilMap]
    ELSE ReadMembers(t, 2, [k \in {} |-> ""])

InfoKeys == {"backingImageName", "backingImageDataSourceType", "backingImageChecksum"}

\* the members of the map m that are not info keys
OtherMembers(m) ==
    IF m = NilMap THEN [k \in {} |-> ""]
    ELSE [k \in DOMAIN m \ InfoKeys |-> m[k]]

\* C14: the three info keys are volume parameters with the values the
\* backing-image map had for them, the data-source-parameters value is the
\* JSON serialization of exactly the other members of that map, and the
\* descriptor resolved from the volume parameters has the input name as its
\* backing image.
C14_BackingImageFolding ==
    bi.called =>
       LET out == bi.out
           parsed == UnmarshalMap(out["backingImageDataSourceParameters"])
       IN /\ \A k \in InfoKeys : k \in DOMAIN out /\ out[k] = Lookup(bi.arg, k)
          /\ parsed.ok
          /\ OtherMembers(parsed.map) = OtherMembers(bi.arg)
          /\ parsed.map # NilMap => DOMAIN parsed.map \cap InfoKeys = {}
          /\ \A k \in DOMAIN bi.volumeParameters \ InfoKeys :
                k \in DOMAIN out /\ out[k] = bi.volumeParameters[k]
          /\ (optPhase = "done" /\ optArg = out) =>
                (vol # NoVol /\ vol.BackingImage = Lookup(bi.arg, "backingImageName"))

\* a map with the name, a parameter whose value needs escaping and another
\* one, folded over volume parameters that named another image, and resolved
C14_Witness ==
    /\ bi.called
    /\ optPhase = "done"
    /\ optArg = bi.out
    /\ bi.arg # NilMap
    /\ DOMAIN bi.arg = {"backingImageName", "backingImageFoo", "url"}
    /\ bi.arg["url"] = "a\"b\\c"
    /\ Lookup(bi.volumeParameters, "backingImageName") = "old"
    /\ vol # NoVol /\ vol.BackingImage = "img1"
    /\ optArg["backingImageDataSourceParameters"]
          = "{\"backingImageFoo\":\"bar\",\"url\":\"a\\\"b\\\\c\"}"

-----------------------------------------------------------------------------
(* Properties of the probe and of concurrent callers *)

\* no caller is inside syncMountPointDirectory
NoProbeRunning ==
    \A p \in Callers : procs[p].pc \in {"idle", "openDir", "return", "unmount", "done"}

AllHandlesClosed == \A p \in Callers : ~procs[p].d /\ ~procs[p].f

\* C16 as stated: after every run of the probe, whatever its outcome, the
\* sentinel file is not left in the probed directory and every handle the
\* probe opened is closed.
C16_Original ==
    NoProbeRunning =>
       /\ AllHandlesClosed
       /\ ~sentinel.inMount /\ ~sentinel.inDir

\* C16: when the probe has returned, every handle it opened is closed, and if
\* it created the sentinel it has called os.Remove on it; the sentinel is gone
\* unless an os.Remove failed.
C16_SentinelRemovalAttempted ==
    /\ NoProbeRunning =>
          /\ AllHandlesClosed
          /\ (sentinel.inMount \/ sentinel.inDir) => sentinel.removeFailed
    /\ \A p \in Callers :
          (procs[p].pc \in {"return", "unmount", "done"} /\ procs[p].created)
             => procs[p].removed

\* a probe whose write failed has returned
C16_Witness ==
    \E p \in Callers :
       /\ procs[p].pc = "return"
       /\ procs[p].stepErr = ProbeErr("write")
       /\ procs[p].created /\ procs[p].removed
       /\ procs[p].rmErr = NilErr
       /\ ~sentinel.inMount

HealthyMount(f) == f.mounted /\ f.statErr = "none" /\ f.ioFault = "none"

\* C20: two calls of ensureMountPoint running concurrently on a healthy mount
\* both report it healthy without an error, whatever the interleaving of
\* their steps on the sentinel; neither unmounts, and the sentinel is absent
\* when both have finished.
C20_ConcurrentProbesHealthy ==
    HealthyMount(fs) =>
       /\ \A p \in Callers :
             /\ procs[p].pc # "unmount"
             /\ procs[p].pc = "done" =>
                   /\ procs[p].call.ret
                   /\ procs[p].call.err = NilErr
                   /\ procs[p].call.probeErr = NilErr
                   /\ IssuedUnmounts(procs[p].call) = 0
       /\ (\A p \in Callers : procs[p].pc = "done") =>
             (~sentinel.inMount /\ AllHandlesClosed)

\* both calls have finished, and their steps overlapped: one's os.Remove found
\* the sentinel already removed by the other
C20_Witness ==
    /\ HealthyMount(fs)
    /\ \A p \in Callers : procs[p].pc = "done" /\ procs[p].created
    /\ \E p \in Callers : procs[p].rmErr # NilErr

-----------------------------------------------------------------------------
(* Properties of the parameter resolver *)

\* The recognized keys that are parsed or validated, in processing order
CheckedKeys ==
    <<"staleReplicaTimeout", "share", "migratable", "encrypted",
      "numberOfReplicas", "replicaAutoBalance", "dataLocality",
      "disableRevisionCounter", "unmapMarkSnapChainRemoved",
      "replicaSoftAntiAffinity", "replicaZoneSoftAntiAffinity",
      "replicaDiskSoftAntiAffinity", "recurringJobSelector",
      "freezeFilesystemForSnapshot">>

\* the value v of key k fails parsing or validation
FieldFails(k, v) ==
    IF k = "staleReplicaTimeout" THEN Atoi(v).err # NilErr
    ELSE IF k = "numberOfReplicas" THEN Atoi(v).err # NilErr \/ Atoi(v).val < 0
    ELSE IF k \in BoolKeys THEN ParseBool(v).err # NilErr
    ELSE IF k \in EnumKeys THEN v \notin EnumValues(k)
    ELSE IF k = "recurringJobSelector" THEN UnmarshalJobs(v).err # NilErr
    ELSE FALSE

FailingFields(opts) ==
    {i \in 1..Len(CheckedKeys) :
        Has(opts, CheckedKeys[i]) /\ FieldFails(CheckedKeys[i], opts[CheckedKeys[i]])}

FirstFailing(opts) ==
    CheckedKeys[CHOOSE i \in FailingFields(opts) :
                    \A j \in FailingFields(opts) : i <= j]

\* C8: exactly one of descriptor and error is non-nil on every return of
\* getVolumeOptions, and when a recognized key fails parsing or validation the
\* call returns no descriptor and a non-nil error naming the first failing
\* field in processing order.
C8_FirstFailureReported ==
    optPhase = "done" =>
        /\ (vol = NoVol) # (optErr = NilErr)
        /\ FailingFields(optArg) # {} =>
              /\ vol = NoVol
              /\ optErr # NilErr
              /\ Contains(optErr.msg, FirstFailing(optArg))

ShareIsTrue(opts) == Has(opts, "share") /\ ParseBool(opts["share"]).val

MigratableIsTrue(opts) ==
    Has(opts, "migratable") /\ ParseBool(opts["migratable"]).val

\* C9: in every descriptor getVolumeOptions returns, migratable implies access
\* mode ReadWriteMany; a request with migratable=true and share absent or
\* false is not rejected for it and yields a descriptor with migratable=false.
C9_MigratableNeedsRWX ==
    optPhase = "done" =>
        /\ vol # NoVol =>
              /\ vol.Migratable => vol.AccessMode = AccessModeReadWriteMany
              /\ (MigratableIsTrue(optArg) /\ ~ShareIsTrue(optArg))
                    => ~vol.Migratable
              /\ (MigratableIsTrue(optArg) /\ ShareIsTrue(optArg))
                    => vol.Migratable
        /\ (MigratableIsTrue(optArg) /\ FailingFields(optArg) = {}) => vol # NoVol
        /\ MigratableIsTrue(optArg) => ~Contains(optErr.msg, "migratable")

C9_Witness ==
    /\ optPhase = "done"
    /\ Has(optArg, "migratable") /\ optArg["migratable"] = "true"
    /\ ~Has(optArg, "share")
    /\ vol # NoVol /\ ~vol.Migratable /\ optErr = NilErr

\* the call gets as far as parsing migratable, and parses it as true
MigratableParsedTrue(opts) ==
    /\ Has(opts, "staleReplicaTimeout") => Atoi(opts["staleReplicaTimeout"]).err = NilErr
    /\ Has(opts, "share") => ParseBool(opts["share"]).err = NilErr
    /\ Has(opts, "migratable")
    /\ ParseBool(opts["migratable"]).err = NilErr
    /\ ParseBool(opts["migratable"]).val

\* C19: getVolumeOptions changes the caller's map in at most one way: it
\* rewrites "migratable" to "false" exactly when migratable parsed as true and
\* the access mode is not ReadWriteMany; no other value changes, no key is
\* added or removed, and a call on the resulting map returns what the first
\* call returned and leaves the map as it is.
C19_OnlyMigratableRewritten ==
    optPhase = "done" =>
        /\ DOMAIN volOptions = DOMAIN optArg
        /\ \A k \in DOMAIN optArg \ {"migratable"} : volOptions[k] = optArg[k]
        /\ volOptions # optArg
              <=> (MigratableParsedTrue(optArg) /\ ~ShareIsTrue(optArg))
        /\ volOptions # optArg => volOptions["migratable"] = "false"
        /\ LET again == getVolumeOptions(volOptions) IN
              /\ again.vol = vol
              /\ again.err = optErr
              /\ again.opts = volOptions

\* the map was rewritten by a call that then failed on a later field
C19_Witness ==
    /\ optPhase = "done"
    /\ Has(optArg, "migratable") /\ optArg["migratable"] = "1"
    /\ volOptions["migratable"] = "false"
    /\ optErr # NilErr

\* C10: in every descriptor getVolumeOptions returns the stale-replica timeout
\* is positive: 2880 when the key is absent or parses to a value <= 0, the
\* parsed value when that is > 0.
C10_StaleTimeoutPositive ==
    (optPhase = "done" /\ vol # NoVol) =>
        /\ vol.StaleReplicaTimeout > 0
        /\ IF Has(optArg, "staleReplicaTimeout")
              /\ Atoi(optArg["staleReplicaTimeout"]).val > 0
           THEN vol.StaleReplicaTimeout = Atoi(optArg["staleReplicaTimeout"]).val
           ELSE vol.StaleReplicaTimeout = 2880

C10_Witness ==
    /\ optPhase = "done" /\ vol # NoVol
    /\ Has(optArg, "staleReplicaTimeout") /\ optArg["staleReplicaTimeout"] = "0"
    /\ vol.StaleReplicaTimeout = 2880

====
